---- MODULE Spec2Model ----
(***************************************************************************)
(* Distance-vector routing simulation (src/src/main.rs).                   *)
(*                                                                         *)
(* A World holds, per node, a distance vector dv, the list `connected` of  *)
(* (neighbour, weight) pairs and the list `inbox` of (neighbour, vector)   *)
(* pairs.  apply_operations and run_simulation build a new World from an   *)
(* old one; run_until_stable repeats run_simulation until NotChanged.      *)
(*                                                                         *)
(* Both builders fill `inbox` and `connected` by iterating a               *)
(* std::collections::HashMap, whose iteration order is unspecified and     *)
(* differs from map to map; the model chooses it nondeterministically.     *)
(*                                                                         *)
(* World.generation is a u32 that every round increments; the model keeps  *)
(* it as an unsigned counter of GenBits bits, so that a run that never     *)
(* stops is a cycle of finitely many states.                               *)
(*                                                                         *)
(* src/src/cost.rs (Cost and its addition and order) and src/src/repr.rs   *)
(* (DistanceCalculationTuple, HtmlFormula) are modelled as operators, with *)
(* a caller of their own (SpecFormula): main.rs does not use them.         *)
(***************************************************************************)
EXTENDS Integers, Sequences, FiniteSets, TLC

VARIABLES
    node_names,   \* World.node_names : index -> name
    dv,           \* Node.dv          : index -> vector (index -> DVValue)
    inbox,        \* Node.inbox       : index -> Seq(<<neighbour, vector>>)
    connected,    \* Node.connected   : index -> Seq(<<neighbour, weight>>)
    generation,   \* World.generation
    pc,           \* "idle" | "running" (inside run_until_stable) | "aborted"
    stable,       \* the World is the one run_until_stable returned
    rerun,        \* ... by a call that was itself given such a World
    history,      \* "fresh" | "relaxed" (a Changed round has run) |
                  \* "remutated" (a batch was applied after such a round)
    rounds,       \* run_simulation calls of the current/last run_until_stable
    applied,      \* operations applied so far, over all batches
    mainpc,       \* position of main(): "none" when main is not the driver
    outcome,      \* Result of the last caller that resolved names by
                  \* add_interface: "none" | "Ok" | "Err"
    formula,      \* an HtmlFormula (src/src/repr.rs): target, source, members
    answer        \* what the last min_vector / min_cost call on it returned

vars == <<node_names, dv, inbox, connected, generation, pc, stable, rerun,
          history, rounds, applied, mainpc, outcome, formula, answer>>

world == <<node_names, dv, inbox, connected, generation>>

----------------------------------------------------------------------------
(* Bounds of the model *)

MaxNodes == 3        \* World::new is given 1..MaxNodes names
MaxWeight == 1       \* operation weights are drawn from 0..MaxWeight
MaxBatchLen == 2     \* operations per apply_operations batch
MaxOps == 3          \* operations applied per behaviour, over all batches
GenBits == 2         \* the generation counter is kept modulo 2^GenBits
MaxRounds == 6       \* the observer counter `rounds` saturates here

AllNames == <<"A", "B", "C", "D", "E", "F", "G", "H">>

Weights == 0 .. MaxWeight

RECURSIVE Pow2(_)
Pow2(n) == IF n = 0 THEN 1 ELSE 2 * Pow2(n - 1)

----------------------------------------------------------------------------
(* DVValue<W> *)

Infinity == [tag |-> "Infinity", w |-> 0, via |-> 0]
SameNode == [tag |-> "SameNode", w |-> 0, via |-> 0]
Distance(w, via) == [tag |-> "Distance", w |-> w, via |-> via]

ChangeWeight(a, b, w) == <<a, b, w>>

Indexes == DOMAIN node_names

----------------------------------------------------------------------------
(* World::new *)

NewDv(names) ==
    [index \in DOMAIN names |->
        [sub_index \in DOMAIN names |->
            IF sub_index = index THEN SameNode ELSE Infinity]]

WorldNew(names) ==
    /\ node_names = names
    /\ dv = NewDv(names)
    /\ inbox = [index \in DOMAIN names |-> <<>>]
    /\ connected = [index \in DOMAIN names |-> <<>>]
    /\ generation = 0

----------------------------------------------------------------------------
(* modify_dv *)

modify_dv(original, node_b, new_w) ==
    [index \in DOMAIN original |->
        IF index = node_b THEN Distance(new_w, node_b) ELSE original[index]]

----------------------------------------------------------------------------
(* The `relations` map both builders collect from the connected lists *)

RelationKeys(conn) ==
    UNION {{<<n, conn[n][i][1]>> : i \in 1 .. Len(conn[n])} : n \in DOMAIN conn}

WeightIn(list, m) ==
    LET i == CHOOSE j \in 1 .. Len(list) : list[j][1] = m IN list[i][2]

Relations(conn) ==
    [p \in RelationKeys(conn) |-> WeightIn(conn[p[1]], p[2])]

RelInsert(rel, key, w) ==
    [p \in DOMAIN rel \cup {key} |-> IF p = key THEN w ELSE rel[p]]

\* The keys of `rel` that start at node n: the neighbours the builder pushes
NeighboursIn(rel, n) == {p[2] : p \in {q \in DOMAIN rel : q[1] = n}}

\* The iteration orders a HashMap may produce for the entries of one node
Orders(S) ==
    {f \in [1 .. Cardinality(S) -> S] :
        \A i, j \in 1 .. Cardinality(S) : i # j => f[i] # f[j]}

\* One order per node; idx is 0 .. k-1
RECURSIVE IterationOrders(_, _)
IterationOrders(rel, idx) ==
    IF idx = {} THEN {[n \in {} |-> <<>>]}
    ELSE LET last == Cardinality(idx) - 1 IN
         {(last :> o) @@ f : f \in IterationOrders(rel, idx \ {last}),
                             o \in Orders(NeighboursIn(rel, last))}

\* The inbox filled from the vectors of the World the builder was given
BuildInboxStale(rel, new_dvs, ord) ==
    [n \in DOMAIN ord |->
        [i \in 1 .. Len(ord[n]) |-> <<ord[n][i], dv[ord[n][i]]>>]]

\* The node-building loop shared by apply_operations and run_simulation
BuildInbox(rel, new_dvs, ord) ==
    [n \in DOMAIN ord |->
        [i \in 1 .. Len(ord[n]) |-> <<ord[n][i], new_dvs[ord[n][i]]>>]]

BuildConnected(rel, ord) ==
    [n \in DOMAIN ord |->
        [i \in 1 .. Len(ord[n]) |-> <<ord[n][i], rel[<<n, ord[n][i]>>]>>]]

----------------------------------------------------------------------------
(* World::apply_operations *)

\* The edge recorded for node_a only
ChangeRelationsOneWay(rel, node_a, node_b, new_w) ==
    RelInsert(rel, <<node_a, node_b>>, new_w)

\* lines 212-213
ChangeRelations(rel, node_a, node_b, new_w) ==
    RelInsert(RelInsert(rel, <<node_a, node_b>>, new_w), <<node_b, node_a>>, new_w)

\* Both entries written into the vector of node_a
ChangeDvsOneVector(new_dvs, node_a, node_b, new_w) ==
    [new_dvs EXCEPT ![node_a] =
        modify_dv(modify_dv(new_dvs[node_a], node_b, new_w), node_a, new_w)]

\* lines 215-231
ChangeDvs(new_dvs, node_a, node_b, new_w) ==
    LET dvs1 == [new_dvs EXCEPT ![node_a] = modify_dv(new_dvs[node_a], node_b, new_w)]
    IN  [dvs1 EXCEPT ![node_b] = modify_dv(dvs1[node_b], node_a, new_w)]

\* lines 209-234: the loop over the operations of the batch
RECURSIVE ApplyOps(_, _, _, _)
ApplyOps(operations, i, rel, new_dvs) ==
    IF i > Len(operations) THEN [relations |-> rel, new_dvs |-> new_dvs]
    ELSE
        LET node_a == operations[i][1]
            node_b == operations[i][2]
            new_w  == operations[i][3]
        IN  ApplyOps(operations, i + 1,
                     ChangeRelations(rel, node_a, node_b, new_w),
                     ChangeDvs(new_dvs, node_a, node_b, new_w))

ApplyResult(operations) == ApplyOps(operations, 1, Relations(connected), dv)

\* The returned World stamped with the next generation
apply_operationsNextGeneration(operations) ==
    \E res \in {ApplyResult(operations)} :
        \E ord \in IterationOrders(res.relations, Indexes) :
            /\ dv' = res.new_dvs
            /\ inbox' = BuildInbox(res.relations, res.new_dvs, ord)
            /\ connected' = BuildConnected(res.relations, ord)
            /\ generation' = (generation + 1) % Pow2(GenBits)
            /\ UNCHANGED node_names

\* lines 189-257
apply_operations(operations) ==
    \E res \in {ApplyResult(operations)} :
        \E ord \in IterationOrders(res.relations, Indexes) :
            /\ dv' = res.new_dvs
            /\ inbox' = BuildInbox(res.relations, res.new_dvs, ord)
            /\ connected' = BuildConnected(res.relations, ord)
            /\ UNCHANGED <<node_names, generation>>

----------------------------------------------------------------------------
(* World::run_simulation *)

sorted_nodes == [i \in 1 .. Cardinality(Indexes) |-> i - 1]

\* lines 298-306: the unwrap of a direct cost that is not a Distance fails
NodePanics(n) ==
    \E i \in 1 .. Len(connected[n]) : dv[n][connected[n][i][1]].tag # "Distance"

SimulationPanics == \E n \in Indexes : NodePanics(n)

direct_cost(n) ==
    [conn \in {connected[n][i][1] : i \in 1 .. Len(connected[n])} |-> dv[n][conn].w]

None == <<>>
Some(x) == <<x>>

\* The neighbour itself reached at no cost
node_b_costFreeNeighbour(entry, direct) ==
    CASE entry.tag = "Infinity" -> None
      [] entry.tag = "Distance" -> Some(entry.w + direct)
      [] entry.tag = "SameNode" -> Some(0)

\* The direct cost left out of the sum
node_b_costNoDirect(entry, direct) ==
    CASE entry.tag = "Infinity" -> None
      [] entry.tag = "Distance" -> Some(entry.w)
      [] entry.tag = "SameNode" -> Some(direct)

\* lines 360-366
node_b_cost(entry, direct) ==
    CASE entry.tag = "Infinity" -> None
      [] entry.tag = "Distance" -> Some(entry.w + direct)
      [] entry.tag = "SameNode" -> Some(direct)

\* The comparison of line 371 turned round
replaceGreater(v, new_w) ==
    CASE v.tag = "Infinity" -> TRUE
      [] v.tag = "Distance" -> v.w < new_w
      [] v.tag = "SameNode" -> FALSE

\* The comparison of line 371 letting a tie replace
replaceOnTie(v, new_w) ==
    CASE v.tag = "Infinity" -> TRUE
      [] v.tag = "Distance" -> v.w >= new_w
      [] v.tag = "SameNode" -> FALSE

\* lines 369-373
replace(v, new_w) ==
    CASE v.tag = "Infinity" -> TRUE
      [] v.tag = "Distance" -> v.w > new_w
      [] v.tag = "SameNode" -> FALSE

\* lines 348-379: the loop over the inbox for destination `index`
RECURSIVE Relax(_, _, _, _, _)
Relax(box, dc, index, i, v) ==
    IF i > Len(box) THEN v
    ELSE
        LET node_b == box[i][1]
            cand == node_b_cost(box[i][2][index], dc[node_b])
            v2 == IF cand # None /\ replace(v, cand[1])
                  THEN Distance(cand[1], node_b) ELSE v
        IN  Relax(box, dc, index, i + 1, v2)

\* The minimum started from the node's old entry instead of Infinity
RelaxVectorFromOld(n, box) ==
    [index \in Indexes |->
        IF index = n THEN SameNode
        ELSE Relax(box, direct_cost(n), index, 1, dv[n][index])]

\* lines 313-394
RelaxVector(n, box) ==
    [index \in Indexes |->
        IF index = n THEN SameNode
        ELSE Relax(box, direct_cost(n), index, 1, Infinity)]

\* The new vector compared with itself
NodeChangedNever(n, new_dv) ==
    \E index \in Indexes \ {n} : new_dv[index] # new_dv[index]

\* line 384: the derived PartialEq of DVValue
NodeChanged(n, new_dv) ==
    \E index \in Indexes \ {n} : new_dv[index] # dv[n][index]

\* The vectors a node of the loop would read if it took them from the
\* vectors already computed in this round instead of its inbox
LiveBox(n, acc) ==
    [i \in 1 .. Len(inbox[n]) |->
        IF inbox[n][i][1] \in DOMAIN acc.new_dvs
        THEN <<inbox[n][i][1], acc.new_dvs[inbox[n][i][1]]>>
        ELSE inbox[n][i]]

SimulateNodeLive(n, acc) ==
    LET new_dv == RelaxVector(n, LiveBox(n, acc)) IN
    [new_dvs |-> (n :> new_dv) @@ acc.new_dvs,
     changed_nodes |->
        IF NodeChanged(n, new_dv)
        THEN acc.changed_nodes \cup {n} ELSE acc.changed_nodes]

\* lines 295-404: the body of the loop over sorted_nodes
SimulateNode(n, acc) ==
    LET new_dv == RelaxVector(n, inbox[n]) IN
    [new_dvs |-> (n :> new_dv) @@ acc.new_dvs,
     changed_nodes |->
        IF NodeChanged(n, new_dv)
        THEN acc.changed_nodes \cup {n} ELSE acc.changed_nodes]

RECURSIVE SimulateNodes(_, _, _)
SimulateNodes(order, i, acc) ==
    IF i > Len(order) THEN acc
    ELSE SimulateNodes(order, i + 1, SimulateNode(order[i], acc))

EmptyAcc == [new_dvs |-> [n \in {} |-> n], changed_nodes |-> {}]

Simulation == SimulateNodes(sorted_nodes, 1, EmptyAcc)

\* generation + 1 on an unsigned counter of GenBits bits
NextGeneration == (generation + 1) % Pow2(GenBits)

----------------------------------------------------------------------------
(* run_until_stable: one step is one call of run_simulation and the match *)

\* main: the position a returning run_until_stable leaves main at
MainAfterRun ==
    CASE mainpc = "world" -> "world1_done"
      [] mainpc = "world2" -> "done"
      [] OTHER -> mainpc

CountRound == IF pc = "idle" THEN 1
              ELSE IF rounds < MaxRounds THEN rounds + 1 ELSE rounds

CanRun ==
    \/ pc = "running"
    \/ pc = "idle" /\ mainpc \in {"none", "world", "world2"}

\* run_simulation aborts on the unwrap of line 305
RoundAborts ==
    /\ CanRun
    /\ SimulationPanics
    /\ pc' = "aborted"
    /\ rounds' = CountRound
    /\ UNCHANGED <<node_names, dv, inbox, connected, generation, stable,
                   rerun, history, applied, mainpc, outcome, formula, answer>>

\* NotChanged returning a rebuilt World instead of the World it was given
RoundNotChangedRebuilt ==
    /\ CanRun
    /\ ~SimulationPanics
    /\ Simulation.changed_nodes = {}
    /\ \E relations \in {Relations(connected)} :
        \E ord \in IterationOrders(relations, Indexes) :
            /\ inbox' = BuildInbox(relations, dv, ord)
            /\ connected' = BuildConnected(relations, ord)
    /\ generation' = NextGeneration
    /\ pc' = "idle"
    /\ stable' = TRUE
    /\ rerun' = (pc = "idle" /\ stable)
    /\ rounds' = CountRound
    /\ mainpc' = MainAfterRun
    /\ UNCHANGED <<node_names, dv, history, applied, outcome, formula, answer>>

\* NotChanged returning the World with the generation it was given
RoundNotChangedSameGeneration ==
    /\ CanRun
    /\ ~SimulationPanics
    /\ Simulation.changed_nodes = {}
    /\ pc' = "idle"
    /\ stable' = TRUE
    /\ rerun' = (pc = "idle" /\ stable)
    /\ rounds' = CountRound
    /\ mainpc' = MainAfterRun
    /\ UNCHANGED <<node_names, dv, inbox, connected, generation, history,
                   applied, outcome, formula, answer>>

\* run_simulation returns NotChanged: run_until_stable returns the World
RoundNotChanged ==
    /\ CanRun
    /\ ~SimulationPanics
    /\ Simulation.changed_nodes = {}
    /\ generation' = NextGeneration
    /\ pc' = "idle"
    /\ stable' = TRUE
    /\ rerun' = (pc = "idle" /\ stable)
    /\ rounds' = CountRound
    /\ mainpc' = MainAfterRun
    /\ UNCHANGED <<node_names, dv, inbox, connected, history, applied,
                   outcome, formula, answer>>

\* run_simulation returns Changed(w2): run_until_stable recurses on w2
RoundChanged ==
    /\ CanRun
    /\ ~SimulationPanics
    /\ \E sim \in {Simulation}, relations \in {Relations(connected)} :
        /\ sim.changed_nodes # {}
        /\ \E ord \in IterationOrders(relations, Indexes) :
            /\ dv' = sim.new_dvs
            /\ inbox' = BuildInbox(relations, sim.new_dvs, ord)
            /\ connected' = BuildConnected(relations, ord)
    /\ generation' = NextGeneration
    /\ pc' = "running"
    /\ stable' = FALSE
    /\ rerun' = FALSE
    /\ history' = IF history = "fresh" THEN "relaxed" ELSE history
    /\ rounds' = CountRound
    /\ UNCHANGED <<node_names, applied, mainpc, outcome, formula, answer>>

run_until_stable == RoundAborts \/ RoundNotChanged \/ RoundChanged

----------------------------------------------------------------------------
(* The callers *)

Operations ==
    {ChangeWeight(a, b, w) : a \in Indexes, b \in Indexes, w \in Weights}

OperationBatches == UNION {[1 .. k -> Operations] : k \in 1 .. MaxBatchLen}

\* what a batch does to the observers
Mutated(operations) ==
    /\ stable' = FALSE
    /\ rerun' = FALSE
    /\ history' = IF history = "fresh" THEN "fresh" ELSE "remutated"
    /\ rounds' = 0
    /\ applied' = applied + Len(operations)

\* any caller: a batch of resolved operations applied to an idle World
ApplyBatch ==
    /\ pc = "idle"
    /\ mainpc = "none"
    /\ \E operations \in OperationBatches :
        /\ applied + Len(operations) <= MaxOps
        /\ apply_operations(operations)
        /\ Mutated(operations)
    /\ UNCHANGED <<pc, mainpc, outcome, formula, answer>>

\* add_interface on the names of initial_world2 and main: A=0 B=1 C=2 D=3
ScenarioA ==
    <<ChangeWeight(0, 1, 2), ChangeWeight(1, 2, 7), ChangeWeight(2, 3, 4),
      ChangeWeight(0, 3, 8), ChangeWeight(1, 3, 9)>>

ScenarioB == <<ChangeWeight(1, 3, 80)>>

\* main, line 481
initial_world2 ==
    /\ mainpc = "start"
    /\ apply_operations(ScenarioA)
    /\ Mutated(ScenarioA)
    /\ mainpc' = "world"
    /\ UNCHANGED <<pc, outcome, formula, answer>>

\* main, lines 494-496
MainReweight ==
    /\ mainpc = "world1_done"
    /\ apply_operations(ScenarioB)
    /\ Mutated(ScenarioB)
    /\ mainpc' = "world2"
    /\ UNCHANGED <<pc, outcome, formula, answer>>

Observers ==
    /\ pc = "idle"
    /\ stable = FALSE
    /\ rerun = FALSE
    /\ history = "fresh"
    /\ rounds = 0
    /\ applied = 0
    /\ outcome = "none"

\* no HtmlFormula is in use: main.rs does not build one
NoFormula ==
    /\ formula = [target |-> 0, source |-> 0, members |-> <<>>]
    /\ answer = [call |-> "none", value |-> [tag |-> "Zero", w |-> 0]]

Init ==
    /\ \E n \in 1 .. MaxNodes :
        WorldNew([index \in 0 .. n - 1 |-> AllNames[index + 1]])
    /\ Observers
    /\ NoFormula
    /\ mainpc = "none"

Next == ApplyBatch \/ RoundAborts \/ RoundNotChanged \/ RoundChanged

Spec == Init /\ [][Next]_vars

\* The first batch applied to the World of World::new
ApplyFirstBatch == applied = 0 /\ ApplyBatch

NextFirst == ApplyFirstBatch \/ RoundAborts \/ RoundNotChanged \/ RoundChanged

SpecFirst == Init /\ [][NextFirst]_vars

\* One batch and the calls of run_until_stable after it; a call that has
\* started takes its next step (the recursion of lines 469-470 goes on)
FairSpec ==
    Init /\ [][NextFirst]_vars /\ WF_vars(pc = "running" /\ run_until_stable)

\* main() on the World of initial_world2
InitMain ==
    /\ WorldNew([index \in 0 .. 3 |-> AllNames[index + 1]])
    /\ Observers
    /\ NoFormula
    /\ mainpc = "start"

NextMain == initial_world2 \/ MainReweight \/ RoundNotChanged \/ RoundChanged

SpecMain == InitMain /\ [][NextMain]_vars

----------------------------------------------------------------------------
(* World::add_interface and the callers that resolve names with it *)

Ok(x) == [tag |-> "Ok", value |-> x]
Err(e) == [tag |-> "Err", value |-> e]

\* self.nodes.get(name)
Registered(name) == \E index \in Indexes : node_names[index] = name

\* .map(|n| n.index)
IndexOf(name) == CHOOSE index \in Indexes : node_names[index] = name

\* The second lookup skipped: node_b taken to be node_a when it is unknown
add_interfaceUncheckedB(node_a, node_b, weight) ==
    IF ~Registered(node_a) THEN Err("can't find node_a")
    ELSE IF ~Registered(node_b)
         THEN Ok(ChangeWeight(IndexOf(node_a), IndexOf(node_a), weight))
    ELSE Ok(ChangeWeight(IndexOf(node_a), IndexOf(node_b), weight))

\* lines 122-134
add_interface(node_a, node_b, weight) ==
    IF ~Registered(node_a) THEN Err("can't find node_a")
    ELSE IF ~Registered(node_b) THEN Err("can't find node_b")
    ELSE Ok(ChangeWeight(IndexOf(node_a), IndexOf(node_b), weight))

\* lines 459-465: vec!(add_interface(..)?, ...): the requests are resolved
\* in order and the first error is returned in place of the vector
RECURSIVE Resolve(_, _, _)
Resolve(requests, i, operations) ==
    IF i > Len(requests) THEN Ok(operations)
    ELSE LET r == add_interface(requests[i][1], requests[i][2], requests[i][3])
         IN  IF r.tag = "Err" THEN r
             ELSE Resolve(requests, i + 1, Append(operations, r.value))

\* The names a caller may ask for: the registered ones and one that is not
RequestNames == {AllNames[i] : i \in 1 .. Cardinality(Indexes) + 1}

Requests == RequestNames \X RequestNames \X Weights

RequestBatches == UNION {[1 .. k -> Requests] : k \in 1 .. MaxBatchLen}

\* A caller written as initial_world2 is: it resolves a batch of named
\* requests and applies the operations (here: to a World no batch was
\* applied to before), or returns the error of the first failing request
ApplyNamed ==
    /\ pc = "idle"
    /\ mainpc = "none"
    /\ \/ IF \E requests \in RequestBatches :
                Resolve(requests, 1, <<>>).tag = "Err"
          THEN /\ outcome' = "Err"
               /\ UNCHANGED <<node_names, dv, inbox, connected, generation,
                              stable, rerun, history, rounds, applied>>
          ELSE FALSE
       \/ /\ applied = 0
          /\ \E requests \in RequestBatches :
              \E resolved \in {Resolve(requests, 1, <<>>)} :
                  /\ resolved.tag = "Ok"
                  /\ apply_operations(resolved.value)
                  /\ Mutated(resolved.value)
          /\ outcome' = "Ok"
    /\ UNCHANGED <<pc, mainpc, formula, answer>>

NextNamed == ApplyNamed \/ RoundAborts \/ RoundNotChanged \/ RoundChanged

SpecNamed == Init /\ [][NextNamed]_vars

----------------------------------------------------------------------------
(* World<W> with a signed weight type W *)

SignedWeights == -1 .. MaxWeight

SignedOperations ==
    {ChangeWeight(a, b, w) : a \in Indexes, b \in Indexes, w \in SignedWeights}

SignedBatches == UNION {[1 .. k -> SignedOperations] : k \in 1 .. MaxBatchLen}

\* the first batch of a World<i32>
ApplySigned ==
    /\ pc = "idle"
    /\ mainpc = "none"
    /\ applied = 0
    /\ \E operations \in SignedBatches :
        /\ apply_operations(operations)
        /\ Mutated(operations)
    /\ UNCHANGED <<pc, mainpc, outcome, formula, answer>>

\* the rounds of run_until_stable, followed for MaxRounds rounds
BoundedRound == rounds < MaxRounds /\ run_until_stable

NextSigned == ApplySigned \/ BoundedRound

SpecSigned == Init /\ [][NextSigned]_vars

----------------------------------------------------------------------------
(* src/src/cost.rs: Cost<W> and the DVValue<W> of the explanation formulas *)

Zero == [tag |-> "Zero", w |-> 0]
Value(w) == [tag |-> "Value", w |-> w]
CostInfinity == [tag |-> "Infinity", w |-> 0]

DirectDistance(w) == [tag |-> "DirectDistance", w |-> w, via |-> 0]

\* lines 12-34: PartialOrd and Ord of Cost
partial_cmp(self, other) ==
    IF self = other THEN "Equal"
    ELSE CASE self.tag = "Infinity" -> "Greater"
           [] self.tag = "Zero" -> "Less"
           [] self.tag = "Value" ->
                CASE other.tag = "Infinity" -> "Less"
                  [] other.tag = "Zero" -> "Greater"
                  [] other.tag = "Value" ->
                        IF self.w < other.w THEN "Less"
                        ELSE IF self.w > other.w THEN "Greater"
                        ELSE "Equal"

\* Zero swallowing the other operand
addZeroAbsorbs(self, rhs) ==
    CASE self.tag = "Infinity" -> CostInfinity
      [] self.tag = "Zero" -> Zero
      [] self.tag = "Value" ->
            CASE rhs.tag = "Infinity" -> CostInfinity
              [] rhs.tag = "Zero" -> self
              [] rhs.tag = "Value" -> Value(self.w + rhs.w)

\* lines 36-50: Add of Cost
add(self, rhs) ==
    CASE self.tag = "Infinity" -> CostInfinity
      [] self.tag = "Zero" -> rhs
      [] self.tag = "Value" ->
            CASE rhs.tag = "Infinity" -> CostInfinity
              [] rhs.tag = "Zero" -> self
              [] rhs.tag = "Value" -> Value(self.w + rhs.w)

\* lines 60-80: Into<Cost<W>> for DVValue<W>
into(v) ==
    CASE v.tag = "Infinity" -> CostInfinity
      [] v.tag = "SameNode" -> Zero
      [] v.tag = "DirectDistance" -> Value(v.w)
      [] v.tag = "Distance" -> Value(v.w)

\* lines 91-103
to_dv_value(self, through, direct) ==
    CASE self.tag = "Infinity" -> Infinity
      [] self.tag = "Zero" -> SameNode
      [] self.tag = "Value" ->
            IF direct THEN DirectDistance(self.w)
            ELSE Distance(self.w, through)

----------------------------------------------------------------------------
(* src/src/repr.rs: DistanceCalculationTuple and HtmlFormula *)

draw_direct(target, src) == <<"DirectDistance", target, src>>
draw_distance(target, src) == <<"DistanceVector", target, src>>

\* lines 77-85: the loop of DistanceCalculationTuple::sum
RECURSIVE SumItems(_, _, _)
SumItems(result, i, acc) ==
    IF i > Len(result) THEN acc
    ELSE SumItems(result, i + 1, add(acc, result[i]))

sum(tuple) == SumItems(tuple.result, 1, Zero)

sum_dv(tuple) == to_dv_value(sum(tuple), tuple.through, tuple.direct)

\* lines 112-117: Ord of DistanceCalculationTuple
cmp(tuple, other) == partial_cmp(sum(tuple), sum(other))

\* Iterator::min over the members: the fold keeps the element it holds
\* unless the next one compares smaller
RECURSIVE MinFrom(_, _, _)
MinFrom(members, i, best) ==
    IF i > Len(members) THEN best
    ELSE MinFrom(members, i + 1,
                 IF cmp(best, members[i]) = "Greater" THEN members[i]
                 ELSE best)

IteratorMin(members) == MinFrom(members, 2, members[1])

HtmlFormulaNew(target, source) ==
    [target |-> target, source |-> source, members |-> <<>>]

\* lines 253-255: HtmlFormula::add
push(f, tuple) == [f EXCEPT !.members = Append(@, tuple)]

\* lines 185-206
add_indirect(f, direct_target, direct_src, direct_w, distance_target, distance_src, distance_cost) ==
    push(f, [description |-> <<draw_direct(direct_target, direct_src),
                               draw_distance(distance_target, distance_src)>>,
             result |-> <<Value(direct_w), distance_cost>>,
             through |-> direct_target,
             direct |-> FALSE])

\* lines 208-220
add_direct(f, direct_target, direct_src, direct_w) ==
    push(f, [description |-> <<draw_direct(direct_target, direct_src)>>,
             result |-> <<Value(direct_w)>>,
             through |-> direct_target,
             direct |-> TRUE])

\* lines 257-263; the unwrap fails on a formula without members
min_vector(f) == sum_dv(IteratorMin(f.members))

\* lines 265-271
min_cost(f) == sum(IteratorMin(f.members))

----------------------------------------------------------------------------
(* A caller of HtmlFormula: the formula of one entry, source -> target,   *)
(* filled with one member per neighbour and then asked for its minimum    *)

MaxMembers == 3      \* members added to the formula
MaxNeighbours == 2   \* the neighbours of the source are 1..MaxNeighbours

Neighbours == 1 .. MaxNeighbours

Costs == {Zero, CostInfinity} \cup {Value(w) : w \in Weights}

engine == <<node_names, dv, inbox, connected, generation, pc, stable, rerun,
            history, rounds, applied, mainpc, outcome>>

NoAnswer == [call |-> "none", value |-> Zero]

AddIndirect ==
    /\ Len(formula.members) < MaxMembers
    /\ \E node_b \in Neighbours, direct_w \in Weights, distance_cost \in Costs :
        formula' = add_indirect(formula, node_b, formula.source, direct_w,
                                formula.target, node_b, distance_cost)
    /\ answer' = NoAnswer
    /\ UNCHANGED engine

AddDirect ==
    /\ Len(formula.members) < MaxMembers
    /\ \E node_b \in Neighbours, direct_w \in Weights :
        formula' = add_direct(formula, node_b, formula.source, direct_w)
    /\ answer' = NoAnswer
    /\ UNCHANGED engine

MinVector ==
    /\ formula.members # <<>>
    /\ answer' = [call |-> "min_vector", value |-> min_vector(formula)]
    /\ UNCHANGED <<formula, engine>>

MinCost ==
    /\ formula.members # <<>>
    /\ answer' = [call |-> "min_cost", value |-> min_cost(formula)]
    /\ UNCHANGED <<formula, engine>>

\* min() of no members is None: the unwrap of lines 261 and 269 fails
MinPanics ==
    /\ formula.members = <<>>
    /\ answer.call # "panic"
    /\ answer' = [call |-> "panic", value |-> Zero]
    /\ UNCHANGED <<formula, engine>>

InitFormula ==
    /\ WorldNew([index \in 0 .. 0 |-> AllNames[index + 1]])
    /\ Observers
    /\ mainpc = "none"
    /\ \E target \in Neighbours : formula = HtmlFormulaNew(target, 0)
    /\ answer = NoAnswer

NextFormula == AddIndirect \/ AddDirect \/ MinVector \/ MinCost \/ MinPanics

SpecFormula == InitFormula /\ [][NextFormula]_vars

----------------------------------------------------------------------------
(* Vocabulary of the properties *)

\* The cost of an entry as a number; -1 stands for Infinity
CostOf(v) ==
    IF v.tag = "Distance" THEN v.w ELSE IF v.tag = "SameNode" THEN 0 ELSE -1

CostLeq(c1, c2) == c2 < 0 \/ (c1 >= 0 /\ c1 <= c2)

CostPlus(c1, c2) == IF c1 < 0 \/ c2 < 0 THEN -1 ELSE c1 + c2

RECURSIVE CostMin(_)
CostMin(S) ==
    IF S = {} THEN -1
    ELSE LET c == CHOOSE x \in S : TRUE
             m == CostMin(S \ {c})
         IN  IF CostLeq(c, m) THEN c ELSE m

\* The cheapest walk from n to d of at most k edges in the edge relation
RECURSIVE PathCost(_, _, _, _)
PathCost(rel, n, d, k) ==
    IF n = d THEN 0
    ELSE IF k = 0 THEN -1
    ELSE CostMin({CostPlus(rel[<<n, m>>], PathCost(rel, m, d, k - 1)) :
                    m \in NeighboursIn(rel, n)})

TrueCost(n, d) ==
    PathCost(Relations(connected), n, d, Cardinality(Indexes) - 1)

Returned == pc = "idle" /\ stable

SelfLoop == \E n \in Indexes : <<n, n>> \in RelationKeys(connected)

Edges(n) == {connected[n][i] : i \in 1 .. Len(connected[n])}

TypeOK ==
    /\ pc \in {"idle", "running", "aborted"}
    /\ generation \in 0 .. Pow2(GenBits) - 1
    /\ \A n \in Indexes : DOMAIN dv[n] = Indexes

----------------------------------------------------------------------------
(* C1: once run_until_stable has returned, every entry DV(n)[d] costs the *)
(* true shortest-path cost from n to d in the current edge relation       *)
(* (stated for the Worlds whose edges all join two distinct nodes).       *)
C1_StableIsShortest ==
    (Returned /\ ~SelfLoop) =>
        \A n, d \in Indexes : CostOf(dv[n][d]) = TrueCost(n, d)

(* C2: a running run_until_stable eventually returns a stable World       *)
(* (stated for the Worlds whose edges all join two distinct nodes).       *)
C2_Terminates == (pc = "running" /\ ~SelfLoop) ~> Returned

(* C3: after a mutation batch run_until_stable returns within V-1 calls   *)
(* of run_simulation, V the number of nodes (stated for the Worlds whose  *)
(* edges all join two distinct nodes).                                    *)
C3_RoundBound ==
    (Returned /\ applied > 0 /\ ~SelfLoop) =>
        rounds <= Cardinality(Indexes) - 1

(* C4: no round raises the cost of an entry: the cost a round computes is *)
(* never greater than the cost in the World the round started from        *)
(* (stated for the Worlds whose edges all join two distinct nodes).       *)
C4_NonIncreasing ==
    [][(applied' = applied /\ ~SelfLoop) =>
        \A n, d \in Indexes : CostLeq(CostOf(dv'[n][d]), CostOf(dv[n][d]))]_vars

(* C4 as amended: the same, for the rounds of a World that World::new and *)
(* batches between distinct nodes built, no batch having been applied     *)
(* after a Changed round.                                                 *)
C4_NonIncreasingFirstConvergence ==
    [][(applied' = applied /\ history # "remutated" /\ ~SelfLoop) =>
        \A n, d \in Indexes : CostLeq(CostOf(dv'[n][d]), CostOf(dv[n][d]))]_vars

C4_Witness ==
    /\ history = "relaxed"
    /\ ~SelfLoop
    /\ rounds >= 2
    /\ \E n, d \in Indexes : dv[n][d].tag = "Distance" /\ dv[n][d].via # d

(* C5: DV(n)[n] is the SameNode entry for every node n, in every World.   *)
C5_SelfIsSameNode == \A n \in Indexes : dv[n][n] = SameNode

(* C6: the edge relation is symmetric: a lists (b, w) in its connected    *)
(* list exactly when b lists (a, w).                                      *)
C6_SymmetricEdges ==
    \A a \in Indexes : \A e \in Edges(a) : <<a, e[2]>> \in Edges(e[1])

C6_Witness ==
    /\ history = "remutated"
    /\ pc = "running"
    /\ \E a, b \in Indexes : a # b /\ <<b, 1>> \in Edges(a)

(* C7: run_until_stable on a World that run_until_stable returned returns *)
(* at its first run_simulation and leaves the vectors as they were.       *)
C7_Idempotent ==
    [][(Returned /\ applied' = applied) => (Returned' /\ dv' = dv)]_vars

C7_Witness ==
    /\ Returned
    /\ rerun
    /\ \E n, d \in Indexes : dv[n][d].tag = "Distance" /\ dv[n][d].via # d

(* C8: at the end of main (Scenario B) the cost A to D is 8 and the cost  *)
(* B to D is 11.                                                          *)
C8_ScenarioB_Eleven ==
    mainpc = "done" => (CostOf(dv[0][3]) = 8 /\ CostOf(dv[1][3]) = 11)

(* C8 as amended: at the end of main the cost A to D is 8 and the cost B  *)
(* to D is 10 (through A: 2 + 8).                                         *)
C8_ScenarioB_Ten ==
    mainpc = "done" => (CostOf(dv[0][3]) = 8 /\ CostOf(dv[1][3]) = 10)

C8_Witness == mainpc = "done" /\ <<3, 80>> \in Edges(1)

(* C9: the World run_until_stable returns for the World of initial_world2 *)
(* (Scenario A) has cost 8 for A to D.                                    *)
C9_ScenarioA ==
    mainpc = "world1_done" => CostOf(dv[0][3]) = 8

C9_Witness == mainpc = "world1_done" /\ Returned /\ <<3, 9>> \in Edges(1)

(* C10: a round gives the same vectors and the same changed-node set for  *)
(* every order in which the nodes are processed.                          *)
C10_OrderIndependent ==
    ~SimulationPanics =>
        \A order \in Orders(Indexes) :
            SimulateNodes(order, 1, EmptyAcc) = Simulation

C10_Witness ==
    /\ pc = "running"
    /\ ~SimulationPanics
    /\ Cardinality(Simulation.changed_nodes) >= 2

----------------------------------------------------------------------------
(* The candidates of a round: what node n adds up, per inbox entry, for   *)
(* destination d (None for a neighbour without a route to d)              *)
CandidateCosts(n, d) ==
    [i \in 1 .. Len(inbox[n]) |->
        node_b_cost(inbox[n][i][2][d], direct_cost(n)[inbox[n][i][1]])]

Ascending(box) ==
    \A i, j \in 1 .. Len(box) : i < j => box[i][1] < box[j][1]

\* The neighbours whose candidate for d costs w
NeighboursAtCost(n, d, w) ==
    {inbox[n][i][1] : i \in {j \in 1 .. Len(inbox[n]) :
                                CandidateCosts(n, d)[j] = Some(w)}}

LowestIndex(S) == CHOOSE m \in S : \A k \in S : m <= k

(* C11: a round marks a node as changed only if the cost of one of its    *)
(* entries differs from the cost before the round; a different            *)
(* via-neighbour at equal cost is no change (stated for the Worlds whose  *)
(* edges all join two distinct nodes).                                    *)
C11_CostOnlyChange ==
    (~SimulationPanics /\ ~SelfLoop) =>
        \A n \in Simulation.changed_nodes :
            \E d \in Indexes :
                CostOf(Simulation.new_dvs[n][d]) # CostOf(dv[n][d])

(* C12: every node enumerates its candidates in ascending neighbour       *)
(* index, and the via-neighbour of every entry a round computes is the    *)
(* lowest-index neighbour among those of minimum cost (stated for the     *)
(* Worlds whose edges all join two distinct nodes).                       *)
C12_AscendingCandidates ==
    ~SelfLoop =>
        /\ \A n \in Indexes : Ascending(inbox[n])
        /\ ~SimulationPanics =>
            \A n \in Indexes : \A d \in Indexes \ {n} :
                LET v == Simulation.new_dvs[n][d] IN
                v.tag = "Distance" =>
                    v.via = LowestIndex(NeighboursAtCost(n, d, v.w))

(* C14: applying again, to a World at rest, the operation of an edge with *)
(* the weight the edge already has leaves the cost of every entry of      *)
(* every vector as it was (stated for the Worlds whose edges all join two *)
(* distinct nodes).                                                       *)
C14_ReapplyIsNoOp ==
    (pc = "idle" /\ ~SelfLoop) =>
        \A p \in RelationKeys(connected) :
            LET w == Relations(connected)[p]
                res == ApplyResult(<<ChangeWeight(p[1], p[2], w)>>)
            IN  \A n, d \in Indexes :
                    CostOf(res.new_dvs[n][d]) = CostOf(dv[n][d])

(* C15: the generation changes only in a step that changes the cost of an *)
(* entry of some vector; a round without a cost change leaves it alone.   *)
C15_GenerationOnlyOnCostChange ==
    [][generation' # generation =>
        \E n, d \in Indexes : CostOf(dv'[n][d]) # CostOf(dv[n][d])]_vars

(* C15 as amended: every round of run_until_stable that does not abort    *)
(* advances the generation by one, the final NotChanged round included;   *)
(* an aborted round leaves it as it was.                                  *)
C15_GenerationEveryRound ==
    [][applied' = applied =>
        generation' = IF pc' = "aborted" THEN generation
                      ELSE (generation + 1) % Pow2(GenBits)]_vars

C15_Witness ==
    /\ Returned
    /\ history = "relaxed"
    /\ rounds = 2
    /\ generation = 2

(* C16: apply_operations returns a World with the generation, the node    *)
(* names and the indices of the World it was given.                       *)
C16_ApplyKeepsGeneration ==
    [][applied' # applied =>
        (generation' = generation /\ node_names' = node_names)]_vars

C16_Witness ==
    /\ history = "remutated"
    /\ rounds = 0
    /\ generation > 0
    /\ \E n, d \in Indexes : dv[n][d].tag = "Distance"

----------------------------------------------------------------------------
(* The order of costs: Zero < Value(w) < Infinity, Values by w *)
CostLess(a, b) ==
    \/ a.tag # "Infinity" /\ b.tag = "Infinity"
    \/ a.tag = "Zero" /\ b.tag = "Value"
    \/ a.tag = "Value" /\ b.tag = "Value" /\ a.w < b.w

\* The position of the first member among those of minimum sum
FirstMinimum(members) ==
    CHOOSE k \in DOMAIN members :
        /\ \A j \in DOMAIN members : ~CostLess(sum(members[j]), sum(members[k]))
        /\ \A j \in 1 .. k - 1 : CostLess(sum(members[k]), sum(members[j]))

DistinctThroughs(members) ==
    \A i, j \in DOMAIN members : i # j => members[i].through # members[j].through

\* The members of a formula as the inbox and the direct costs of main.rs:
\* each member is the neighbour `through`, its entry for the target the
\* second term of the member (the neighbour itself for a direct member)
AsEntry(tuple) ==
    IF tuple.direct THEN SameNode
    ELSE CASE tuple.result[2].tag = "Infinity" -> Infinity
           [] tuple.result[2].tag = "Zero" -> SameNode
           [] tuple.result[2].tag = "Value" -> Distance(tuple.result[2].w, 0)

FormulaBox(f) ==
    [i \in DOMAIN f.members |->
        <<f.members[i].through, [d \in {f.target} |-> AsEntry(f.members[i])]>>]

FormulaDirect(f) ==
    [m \in {f.members[i].through : i \in DOMAIN f.members} |->
        LET i == CHOOSE j \in DOMAIN f.members : f.members[j].through = m
        IN  f.members[i].result[1].w]

(* C13: of the candidates of one entry the first-enumerated one of        *)
(* minimum cost wins: the loop of run_simulation over the candidates      *)
(* ends with the first of minimum cost as via, and min_vector returns     *)
(* the sum_dv of the first-added member of minimum sum.                   *)
C13_FirstMinimumWins ==
    formula.members # <<>> =>
        LET winner == formula.members[FirstMinimum(formula.members)] IN
        /\ min_vector(formula) = sum_dv(winner)
        /\ answer.call = "min_vector" => answer.value = sum_dv(winner)
        /\ DistinctThroughs(formula.members) =>
                Relax(FormulaBox(formula), FormulaDirect(formula),
                      formula.target, 1, Infinity)
                    = IF sum(winner) = CostInfinity THEN Infinity
                      ELSE Distance(sum(winner).w, winner.through)

C13_Witness ==
    /\ answer.call = "min_vector"
    /\ DistinctThroughs(formula.members)
    /\ \E i, j \in DOMAIN formula.members :
        /\ i < j
        /\ sum(formula.members[i]) = min_cost(formula)
        /\ sum(formula.members[j]) = min_cost(formula)
        /\ min_cost(formula).tag = "Value"

\* The costs a formula holds or adds up
CostsInUse ==
    {Zero}
    \cup UNION {{formula.members[i].result[k] :
                    k \in DOMAIN formula.members[i].result} :
                i \in DOMAIN formula.members}
    \cup {sum(formula.members[i]) : i \in DOMAIN formula.members}

(* C20: the addition of costs is a commutative monoid: Infinity absorbs   *)
(* on either side, Zero is the identity on either side, Value(a) +        *)
(* Value(b) = Value(a + b), and the addition is commutative and           *)
(* associative.                                                           *)
C20_CostMonoid ==
    \A a, b, c \in CostsInUse :
        /\ add(CostInfinity, a) = CostInfinity
        /\ add(a, CostInfinity) = CostInfinity
        /\ add(Zero, a) = a
        /\ add(a, Zero) = a
        /\ (a.tag = "Value" /\ b.tag = "Value") => add(a, b) = Value(a.w + b.w)
        /\ add(a, b) = add(b, a)
        /\ add(add(a, b), c) = add(a, add(b, c))

C20_Witness ==
    /\ answer.call = "min_cost"
    /\ CostInfinity \in CostsInUse
    /\ Value(MaxWeight) \in CostsInUse
    /\ Cardinality(CostsInUse) >= 4

----------------------------------------------------------------------------
\* The names the World registers
RegisteredNames == {node_names[index] : index \in Indexes}

\* add_interface on every pair of names a caller may ask for
AddInterfaceResolves ==
    \A node_a, node_b \in RequestNames : \A weight \in Weights :
        LET r == add_interface(node_a, node_b, weight) IN
        IF node_a \in RegisteredNames /\ node_b \in RegisteredNames
        THEN /\ r.tag = "Ok"
             /\ node_names[r.value[1]] = node_a
             /\ node_names[r.value[2]] = node_b
             /\ r.value[3] = weight
        ELSE r.tag = "Err"

(* C17: add_interface returns an error when one of the names is not       *)
(* registered and the operation of the two registered indices and the     *)
(* weight otherwise; a caller whose batch holds a name that fails to      *)
(* resolve returns the error and leaves the World as it was.              *)
C17_ResolveOrFail ==
    /\ []AddInterfaceResolves
    /\ [][(outcome # "Err" /\ outcome' = "Err") =>
            (world' = world /\ applied' = applied)]_vars

C17_Witness ==
    /\ outcome = "Err"
    /\ Returned
    /\ history = "relaxed"
    /\ \E n, d \in Indexes : dv[n][d].tag = "Distance" /\ dv[n][d].via # d

(* C18: no negative weight becomes part of the edge relation or of a      *)
(* distance vector that a round reads (stated for the Worlds whose edges  *)
(* all join two distinct nodes).                                          *)
C18_NoNegativeWeight ==
    ~SelfLoop =>
        /\ \A n \in Indexes : \A e \in Edges(n) : e[2] >= 0
        /\ \A n, d \in Indexes : dv[n][d].tag = "Distance" => dv[n][d].w >= 0

----------------------------------------------------------------------------
(* The trace of one entry of a round (main.rs 329-382), as an             *)
(* HtmlFormula: one member "C(n,b) + d_b(d)" per inbox entry of n, with   *)
(* the direct cost and the neighbour's entry the round adds up            *)
RECURSIVE TraceFrom(_, _, _, _)
TraceFrom(n, d, i, f) ==
    IF i > Len(inbox[n]) THEN f
    ELSE LET node_b == inbox[n][i][1] IN
         TraceFrom(n, d, i + 1,
                   add_indirect(f, node_b, n, direct_cost(n)[node_b],
                                d, node_b, into(inbox[n][i][2][d])))

TraceFormula(n, d) == TraceFrom(n, d, 1, HtmlFormulaNew(d, n))

Throughs(f) == {f.members[i].through : i \in DOMAIN f.members}

(* C19: the trace of every relaxed entry holds exactly one candidate per  *)
(* neighbour of the node; the relaxed entry costs the sum of the winning  *)
(* candidate, which no candidate undercuts; and min_vector of the trace   *)
(* costs min_cost of the trace (and is the relaxed entry).                *)
C19_ExplanationComplete ==
    ~SimulationPanics =>
        \A new_dvs \in {Simulation.new_dvs} :
        \A n \in Indexes : \A d \in Indexes \ {n} :
            LET f == TraceFormula(n, d)
                v == new_dvs[n][d]
            IN  /\ Len(f.members) = Cardinality(Edges(n))
                /\ Throughs(f) = {e[1] : e \in Edges(n)}
                /\ f.members = <<>> => v = Infinity
                /\ f.members # <<>> =>
                    /\ into(min_vector(f)) = min_cost(f)
                    /\ v = min_vector(f)
                    /\ \E i \in DOMAIN f.members :
                        /\ sum(f.members[i]) = into(v)
                        /\ v.tag = "Distance" => f.members[i].through = v.via
                    /\ \A i \in DOMAIN f.members :
                        ~CostLess(sum(f.members[i]), into(v))

C19_Witness ==
    /\ pc = "running"
    /\ ~SimulationPanics
    /\ \E n \in Indexes : \E d \in Indexes \ {n} :
        /\ Len(TraceFormula(n, d).members) >= 2
        /\ Simulation.new_dvs[n][d] # dv[n][d]
        /\ Simulation.new_dvs[n][d].tag = "Distance"
        /\ Simulation.new_dvs[n][d].via # d

----------------------------------------------------------------------------
(* C21: the candidate of node n for destination d through neighbour m     *)
(* costs weight(n, m) + (m's entry for d in the inbox of n), weight(n, m) *)
(* being the weight of the edge n-m in the edge relation (stated for the  *)
(* Worlds whose edges all join two distinct nodes).                       *)
C21_CandidateUsesEdgeWeight ==
    (~SimulationPanics /\ ~SelfLoop) =>
        \A n \in Indexes : \A d \in Indexes \ {n} :
            \A i \in 1 .. Len(inbox[n]) :
                LET m == inbox[n][i][1]
                    weight == Relations(connected)[<<n, m>>]
                    entry == inbox[n][i][2][d]
                IN  CandidateCosts(n, d)[i] =
                        CASE entry.tag = "Infinity" -> None
                          [] entry.tag = "SameNode" -> Some(weight)
                          [] entry.tag = "Distance" -> Some(weight + entry.w)

(* C23: in every World each node has exactly one inbox entry per          *)
(* neighbour of its connected list, and the entry for neighbour m is the  *)
(* distance vector of m in that World.                                    *)
C23_InboxConsistent ==
    \A n \in Indexes :
        /\ Len(inbox[n]) = Len(connected[n])
        /\ \A i \in 1 .. Len(inbox[n]) :
            /\ inbox[n][i][1] = connected[n][i][1]
            /\ inbox[n][i][2] = dv[inbox[n][i][1]]
        /\ \A i, j \in 1 .. Len(inbox[n]) :
            i # j => inbox[n][i][1] # inbox[n][j][1]

C23_Witness ==
    /\ Returned
    /\ history = "remutated"
    /\ \E n \in Indexes :
        /\ Len(inbox[n]) >= 2
        /\ \E d \in Indexes : dv[n][d].tag = "Distance" /\ dv[n][d].via # d

(* C24: no World makes a round abort: every node's entry for every        *)
(* neighbour of its connected list is a Distance, and no run aborts.      *)
C24_NoAbort == ~SimulationPanics /\ pc # "aborted"

----------------------------------------------------------------------------
\* The position of the last operation of a batch that names the edge
\* between a and b (0 when none does)
LastNaming(operations, a, b) ==
    LET S == {i \in DOMAIN operations :
                {operations[i][1], operations[i][2]} = {a, b}}
    IN  IF S = {} THEN 0 ELSE CHOOSE i \in S : \A j \in S : j <= i

\* What a batch is to do to the World it is applied to
BatchDoesAsNamed(operations) ==
    \A res \in {ApplyResult(operations)}, old \in {Relations(connected)} :
        \A a, b \in Indexes :
            LET last == LastNaming(operations, a, b) IN
            IF last = 0
            THEN /\ res.new_dvs[a][b] = dv[a][b]
                 /\ <<a, b>> \in DOMAIN res.relations <=> <<a, b>> \in DOMAIN old
                 /\ <<a, b>> \in DOMAIN old => res.relations[<<a, b>>] = old[<<a, b>>]
            ELSE /\ res.new_dvs[a][b] = Distance(operations[last][3], b)
                 /\ <<a, b>> \in DOMAIN res.relations
                 /\ res.relations[<<a, b>>] = operations[last][3]

\* What every batch step shows of it: an edge that is new or re-weighted
\* has both its entries set to its weight via the other endpoint, and an
\* entry that changed is the entry of an edge, set that way
BatchStepFrame ==
    \A old \in {Relations(connected)}, new \in {Relations(connected')} :
        /\ DOMAIN old \subseteq DOMAIN new
        /\ \A p \in DOMAIN new :
            /\ <<p[2], p[1]>> \in DOMAIN new
            /\ new[<<p[2], p[1]>>] = new[p]
            /\ (p \notin DOMAIN old \/ old[p] # new[p]) =>
                    dv'[p[1]][p[2]] = Distance(new[p], p[2])
        /\ \A a, b \in Indexes :
            dv'[a][b] # dv[a][b] =>
                /\ <<a, b>> \in DOMAIN new
                /\ dv'[a][b] = Distance(new[<<a, b>>], b)

(* C22: a batch sets the weight of every edge it names, in both           *)
(* directions, to the weight of the last operation naming it, sets the    *)
(* entries of the two endpoints for each other to that weight via the     *)
(* other endpoint, and leaves every other edge and vector entry as it     *)
(* was.                                                                   *)
C22_BatchEffect ==
    /\ [](pc = "idle" =>
            \A operations \in OperationBatches :
                applied + Len(operations) <= MaxOps => BatchDoesAsNamed(operations))
    /\ [][applied' # applied => BatchStepFrame]_vars

C22_Witness ==
    /\ history = "remutated"
    /\ rounds = 0
    /\ \E a, b, d \in Indexes :
        /\ <<b, 1>> \in Edges(a)
        /\ dv[a][b] = Distance(1, b)
        /\ dv[a][d].tag = "Distance"
        /\ dv[a][d].via # d

----------------------------------------------------------------------------
====
